---- MODULE Spec2Model ----
(***************************************************************************)
(* The Face engine of the ndn package (src/face.go): the Pending Interest  *)
(* Table, the process-wide Content Store, SendInterest with its expiry     *)
(* goroutine, recvData with its Content Store removal goroutine, the read  *)
(* loop started by NewFace, SendData and SendControlInterest; the           *)
(* continuation of Face.Dial and Face.Listen (src/unnamed/part_001); the   *)
(* TLV codec (src/tlv.go); and Key (src/unnamed/part_000).                 *)
(*                                                                         *)
(* Every pit.Update call and every ContentStore call is one atomic step    *)
(* (the PIT and the Content Store are the lpm / exact matchers, which      *)
(* serialise their operations); the steps of different callers and         *)
(* goroutines interleave freely.  Time passes in ticks of one unit of      *)
(* LifeTime and FreshnessPeriod.                                           *)
(*                                                                         *)
(* Specifications: Spec and SpecTimely (PIT and Content Store), SpecLoop   *)
(* and SpecTimersFire (the same with the read loop, for Data that is not   *)
(* cached), SpecControl (SendControlInterest on top of Spec), SpecDial,    *)
(* SpecListen, SpecVar (readByte, writeByte, countBytes), SpecTlv and      *)
(* SpecLen (TLV.Encode, TLV.Len), SpecDecode (TLV.Decode), SpecKey (sign,  *)
(* Verify, DecodePublicKey) and SpecRoundTrip (private keys and packets     *)
(* written and read back).                                                 *)
(***************************************************************************)
EXTENDS Integers, Sequences, FiniteSets, TLC

(* ------------------------------ bounds -------------------------------- *)

NumFaces == 2
MaxCalls == 2
MaxData == 2

Faces == 1..NumFaces
\* Two Names, the second strictly extending the first.
Names == {<<1>>, <<1, 2>>}
\* Interest.LifeTime values, in clock units.
LifeTimes == {1, 2}
\* Data.MetaInfo.FreshnessPeriod values, in clock units.
FreshnessPeriods == {0, 1, 2}

(* ------------------------------- state -------------------------------- *)

VARIABLES
    lpmPrefix,  \* whether lpm's Update(key, f, true) resolves key by longest prefix
    calls,      \* the SendInterest calls made so far, in order
    pit,        \* per Face: Name -> PIT entry
    cs,         \* ContentStore: Name -> id of the cached Data, 0 if none
    data,       \* the Data frames dispatched to recvData so far, in order
    gen,        \* per Face and Name: number of PIT entries created so far
    loop,       \* per Face: its read loop and its inbound-Interest channel
    sent,       \* the SendData calls made so far, in order
    ctl,        \* a SendControlInterest call
    dl,         \* a Dial call: its goroutines, its handle, its transport
    tv,         \* a TLV codec run: its input and its results
    ln,         \* a Listen call: its goroutines, its Handle, its transport
    ky          \* a Key and the last operation on it

vars == <<lpmPrefix, calls, pit, cs, data, gen, loop, sent, ctl, dl, tv, ln, ky>>

\* A PIT value as the Update closures see it: nil, or a map of sinks.
Nil == <<>>

\* make(chan *Data, 1): the history of the channel, a Data id per send and 0 per close.
NewChan == <<>>

\* ch <- d
ChanSend(log, d) == Append(log, d)

\* close(ch)
ChanClose(log) == Append(log, 0)

IsPrefixOf(p, n) == Len(p) <= Len(n) /\ SubSeq(n, 1, Len(p)) = p

\* The key lpm.Matcher.Update(name, f, isPrefix) applies f to.
LpmKey(table, name, isPrefix) ==
    IF isPrefix /\ lpmPrefix
    THEN LET hits == {p \in Names : IsPrefixOf(p, name) /\ table[p] # Nil}
         IN  IF hits = {} THEN name
             ELSE CHOOSE p \in hits : \A q \in hits : Len(q) <= Len(p)
    ELSE name

\* NewFace(transport, ch): the read loop is started; hasIn is ch != nil, inLog
\* the history of ch.  stopBy is the kind of frame the loop terminated on, pend
\* the calls that were members of the PIT of the Face at that moment.
NewLoop(hasIn) ==
    [state |-> "running", hasIn |-> hasIn, inLog |-> NewChan,
     stopBy |-> "", pend |-> {}]

\* A part of the package on which no operation is in progress.
Idle == [pc |-> "idle"]

\* The PIT of every Face and the Content Store are empty.
InitFace ==
    /\ lpmPrefix \in BOOLEAN
    /\ calls = <<>>
    /\ pit = [f \in Faces |-> [n \in Names |-> Nil]]
    /\ cs = [n \in Names |-> 0]
    /\ data = <<>>
    /\ gen = [f \in Faces |-> [n \in Names |-> 0]]

\* Faces made with a nil inbound-Interest channel, whose read loops keep
\* reading Data.
Init ==
    /\ InitFace
    /\ loop = [f \in Faces |-> NewLoop(FALSE)]
    /\ sent = <<>>
    /\ ctl = Idle
    /\ dl = Idle
    /\ ln = Idle
    /\ ky = Idle
    /\ tv = Idle

(* --------------------------- Face.SendInterest ------------------------- *)

\* time.Sleep(time.Duration(i.LifeTime) * time.Millisecond)
ExpireDelay(life) == life

\* A SendInterest that writes the Interest whether or not an entry exists.
SendWritesAlways(chs) == TRUE

\* The PIT closure of SendInterest: whether it writes the Interest.
SendWrites(chs) == chs = Nil

\* The PIT closure of SendInterest: the value it returns (ok: the write succeeded).
SendUpdate(chs, c, ok) ==
    IF chs = Nil
    THEN IF ok THEN <<{c}>> ELSE Nil
    ELSE <<chs[1] \cup {c}>>

\* A SendInterest that ignores what the Content Store lookup returns.
CacheHitNever(e) == FALSE

\* e := ContentStore.Match(i.Name); if e != nil
CacheHit(e) == e # 0

\* SendInterest up to the Content Store lookup: on a hit the call returns here.
\* The call is recorded under the next call id, which also names its sink.
\* stale records whether the Data returned on a hit was older than its
\* FreshnessPeriod.
SendInterestCall(f, n) ==
    /\ Len(calls) < MaxCalls
    /\ LET e == cs[n]
           hit == CacheHit(e)
       IN  calls' = Append(calls,
                [face |-> f, name |-> n,
                 pc |-> IF hit THEN "hit" ELSE "update",
                 ch |-> IF hit THEN ChanClose(ChanSend(NewChan, e)) ELSE NewChan,
                 left |-> 0, wrote |-> FALSE, epoch |-> 0, fired |-> "",
                 stale |-> hit /\ e \in 1..Len(data) /\ data[e].age > data[e].fresh])
    /\ UNCHANGED <<lpmPrefix, pit, cs, data, gen>>

\* SendInterest called by the application.
SendInterest(f, n) ==
    /\ SendInterestCall(f, n)
    /\ UNCHANGED <<loop, sent, ctl, dl, tv, ln, ky>>

\* SendInterest from the PIT update to its return; on success the expiry
\* goroutine starts sleeping.  life is i.LifeTime, which is first read here;
\* ok is whether i.WriteTo succeeds, if it is called.
SendInterestUpdate(c, life, ok) ==
    /\ c \in 1..Len(calls)
    /\ calls[c].pc = "update"
    /\ LET old == calls[c]
           f == old.face
           n == old.name
           key == LpmKey(pit[f], n, FALSE)
           chs == pit[f][key]
           writes == SendWrites(chs)
           err == writes /\ ~ok
           new == SendUpdate(chs, c, ok)
           g == IF chs = Nil /\ new # Nil THEN gen[f][n] + 1 ELSE gen[f][n]
       IN  /\ pit' = [pit EXCEPT ![f][key] = new]
           /\ gen' = [gen EXCEPT ![f][n] = g]
           /\ calls' = [calls EXCEPT ![c] =
                  IF err
                  THEN [old EXCEPT !.pc = "failed"]
                  ELSE [old EXCEPT !.pc = "sleep",
                                   !.left = ExpireDelay(life),
                                   !.wrote = writes /\ ok,
                                   !.epoch = g]]
    /\ UNCHANGED <<loop, sent, ctl, dl, tv, ln, ky, lpmPrefix, cs, data>>

\* An expiry that closes its sink without looking it up in the entry.
ExpireClosesUnchecked(chs, c) == TRUE

\* An expiry that removes its sink from the entry and leaves it open.
ExpireClosesNever(chs, c) == FALSE

\* The PIT closure of the expiry goroutine: whether it closes its sink.
ExpireCloses(chs, c) == chs # Nil /\ c \in chs[1]

\* An expiry that keeps the entry when its last sink is removed.
ExpireUpdateKeepsEmpty(chs, c) ==
    IF chs = Nil THEN Nil
    ELSE IF c \notin chs[1] THEN chs
    ELSE <<chs[1] \ {c}>>

\* An expiry that deletes the whole entry.
ExpireUpdateDropsEntry(chs, c) == Nil

\* The PIT closure of the expiry goroutine: the value it returns.
ExpireUpdate(chs, c) ==
    IF chs = Nil THEN Nil
    ELSE IF c \notin chs[1] THEN chs
    ELSE IF chs[1] \ {c} = {} THEN Nil
    ELSE <<chs[1] \ {c}>>

\* The branch of the expiry closure that runs.
ExpireBranch(chs, c) ==
    IF chs = Nil THEN "noentry"
    ELSE IF c \notin chs[1] THEN "notmember"
    ELSE "closed"

\* The expiry goroutine of call c, once its sleep is over.
Expire(c) ==
    /\ c \in 1..Len(calls)
    /\ calls[c].pc = "sleep"
    /\ calls[c].left = 0
    /\ LET old == calls[c]
           f == old.face
           key == LpmKey(pit[f], old.name, FALSE)
           chs == pit[f][key]
       IN  /\ pit' = [pit EXCEPT ![f][key] = ExpireUpdate(chs, c)]
           /\ calls' = [calls EXCEPT ![c] =
                  [old EXCEPT !.pc = "done",
                              !.fired = ExpireBranch(chs, c),
                              !.ch = IF ExpireCloses(chs, c)
                                     THEN ChanClose(old.ch) ELSE old.ch]]
    /\ UNCHANGED <<loop, sent, ctl, dl, tv, ln, ky, lpmPrefix, cs, data, gen>>

(* ----------------------------- Face.recvData --------------------------- *)

\* A removal goroutine that sleeps one unit too long.
RemoveDelayLong(fresh) == fresh + 1

\* time.Sleep(time.Duration(d.MetaInfo.FreshnessPeriod) * time.Millisecond)
RemoveDelay(fresh) == fresh

\* A recvData that stops after the first sink of the entry.
RecvDeliversFirst(chs) ==
    IF chs = Nil \/ chs[1] = {} THEN {}
    ELSE {CHOOSE c \in chs[1] : \A d \in chs[1] : c <= d}

\* The PIT closure of recvData: the sinks it sends the Data on and closes.
RecvDelivers(chs) == IF chs = Nil THEN {} ELSE chs[1]

\* A recvData that caches every Data it delivers.
RecvCachesAlways(chs, fresh) == chs # Nil

\* The PIT closure of recvData: whether it adds the Data to the Content Store.
RecvCaches(chs, fresh) == chs # Nil /\ fresh > 0

\* The PIT closure of recvData: the value it returns.
RecvUpdate(chs) == Nil

\* The read loop of Face f dispatches a Data named n to recvData, and the PIT
\* holds an entry for it.  The Data is recorded under the next Data id.
recvData(f, n, fresh) ==
    /\ Len(data) < MaxData
    /\ pit[f][LpmKey(pit[f], n, TRUE)] # Nil
    /\ LET id == Len(data) + 1
           key == LpmKey(pit[f], n, TRUE)
           chs == pit[f][key]
           sinks == RecvDelivers(chs)
           caches == RecvCaches(chs, fresh)
       IN  /\ calls' = [c \in 1..Len(calls) |->
                  IF c \in sinks
                  THEN [calls[c] EXCEPT !.ch = ChanClose(ChanSend(@, id))]
                  ELSE calls[c]]
           /\ pit' = [pit EXCEPT ![f][key] = RecvUpdate(chs)]
           /\ cs' = IF caches THEN [cs EXCEPT ![n] = id] ELSE cs
           /\ data' = Append(data,
                  [name |-> n, fresh |-> fresh,
                   cached |-> caches, age |-> 0,
                   rm |-> IF caches THEN "sleep" ELSE "none"])
    /\ UNCHANGED <<loop, sent, ctl, dl, tv, ln, ky, lpmPrefix, gen>>

\* recvData when the PIT holds no entry for the Data: the closure returns nil
\* at once and nothing changes.
recvDataNoEntry(f, n) ==
    /\ pit[f][LpmKey(pit[f], n, TRUE)] = Nil
    /\ pit' = [pit EXCEPT ![f][LpmKey(pit[f], n, TRUE)] = RecvUpdate(Nil)]
    /\ UNCHANGED <<loop, sent, ctl, dl, tv, ln, ky, lpmPrefix, calls, cs, data, gen>>

\* The removal goroutine of Data id, once its sleep is over.
RemoveTask(id) ==
    /\ id \in 1..Len(data)
    /\ data[id].rm = "sleep"
    /\ data[id].age >= RemoveDelay(data[id].fresh)
    /\ cs' = [cs EXCEPT ![data[id].name] = 0]
    /\ data' = [data EXCEPT ![id].rm = "done"]
    /\ UNCHANGED <<loop, sent, ctl, dl, tv, ln, ky, lpmPrefix, calls, pit, gen>>

(* -------------------------------- time --------------------------------- *)

\* A sleeping goroutine whose sleep is over and which has not run yet.
ExpiryDue == \E c \in 1..Len(calls) : calls[c].pc = "sleep" /\ calls[c].left = 0

RemovalDue ==
    \E id \in 1..Len(data) :
        data[id].rm = "sleep" /\ data[id].age >= RemoveDelay(data[id].fresh)

\* time.Sleep sleeps for at least its duration: a goroutine may run late.
\* One unit of time passes: every sleeping expiry goroutine has one unit less
\* to sleep, every Data put in the Content Store is one unit older (its age is
\* counted up to one unit past its FreshnessPeriod).
Tick ==
    /\ calls' = [c \in 1..Len(calls) |->
           IF calls[c].pc = "sleep" /\ calls[c].left > 0
           THEN [calls[c] EXCEPT !.left = @ - 1] ELSE calls[c]]
    /\ data' = [id \in 1..Len(data) |->
           IF data[id].cached /\ data[id].age <= data[id].fresh
           THEN [data[id] EXCEPT !.age = @ + 1] ELSE data[id]]
    /\ calls' # calls \/ data' # data
    /\ UNCHANGED <<loop, sent, ctl, dl, tv, ln, ky, lpmPrefix, pit, cs, gen>>

\* The clock of a run in which every goroutine runs as soon as its sleep is over.
TickTimely ==
    /\ ~ExpiryDue
    /\ ~RemovalDue
    /\ Tick

Next ==
    \/ \E f \in Faces, n \in Names : SendInterest(f, n)
    \/ \E c \in 1..MaxCalls, life \in LifeTimes, ok \in BOOLEAN : SendInterestUpdate(c, life, ok)
    \/ \E c \in 1..MaxCalls : Expire(c)
    \/ \E f \in Faces, n \in Names, fresh \in FreshnessPeriods : recvData(f, n, fresh)
    \/ \E f \in Faces, n \in Names : recvDataNoEntry(f, n)
    \/ \E id \in 1..MaxData : RemoveTask(id)
    \/ Tick

Spec == Init /\ [][Next]_vars

NextTimely ==
    \/ \E f \in Faces, n \in Names : SendInterest(f, n)
    \/ \E c \in 1..MaxCalls, life \in LifeTimes, ok \in BOOLEAN : SendInterestUpdate(c, life, ok)
    \/ \E c \in 1..MaxCalls : Expire(c)
    \/ \E f \in Faces, n \in Names, fresh \in FreshnessPeriods : recvData(f, n, fresh)
    \/ \E f \in Faces, n \in Names : recvDataNoEntry(f, n)
    \/ \E id \in 1..MaxData : RemoveTask(id)
    \/ TickTimely

SpecTimely == Init /\ [][NextTimely]_vars

(* ------------------------------ vocabulary ----------------------------- *)

Idx == 1..Len(calls)

\* The sink of call c holds one Data and is closed.
Delivered(c) == Len(calls[c].ch) = 2 /\ calls[c].ch[1] > 0 /\ calls[c].ch[2] = 0

\* The sink of call c was closed without Data.
ClosedNoData(c) == calls[c].ch = <<0>>

\* Nothing has happened on the sink of call c.
Untouched(c) == calls[c].ch = <<>>

\* Call c is a member of the PIT entry of its Face and Name.
InPit(c) ==
    /\ pit[calls[c].face][calls[c].name] # Nil
    /\ c \in pit[calls[c].face][calls[c].name][1]

\* Calls c and d were members of one and the same PIT entry.
SameEntry(c, d) ==
    /\ calls[c].epoch > 0
    /\ calls[c].face = calls[d].face
    /\ calls[c].name = calls[d].name
    /\ calls[c].epoch = calls[d].epoch

(* -------------------------- NewFace: the read loop --------------------- *)

MaxInbound == 1
MaxSent == 1

\* What the next frame on the transport may be when it does not parse as a
\* Data: an Interest, or something that parses as neither (a failed read
\* included).
FrameKinds == {"interest", "other"}

\* The calls that are members of the PIT of Face f.
PitMembers(f) ==
    {c \in 1..Len(calls) :
        /\ calls[c].face = f
        /\ pit[f][calls[c].name] # Nil
        /\ c \in pit[f][calls[c].name][1]}

\* The number of Interests sent on an inbound-Interest channel.
InboundCount(log) == Cardinality({k \in 1..Len(log) : log[k] # 0})

\* A read loop that goes on reading frames after it has terminated.
LoopReadsAlways(state) == TRUE

\* for { ... break }: the loop reads a next frame until it breaks.
LoopReads(state) == state = "running"

\* if f.interestIn != nil { i.ReadFrom(f.r) ... }: whether a frame that is not
\* a Data is passed to recvInterest.
LoopTakesInterest(hasIn, kind) == hasIn /\ kind = "interest"

\* break: whether a frame that is not a Data ends the loop.
LoopBreaks(hasIn, kind) == ~LoopTakesInterest(hasIn, kind)

\* if f.interestIn != nil { close(f.interestIn) }
LoopCloses(hasIn) == hasIn

\* The read loop of Face f reads a frame that parses as a Data named n and
\* dispatches it to recvData.
LoopData(f, n, fresh) ==
    /\ LoopReads(loop[f].state)
    /\ recvData(f, n, fresh) \/ recvDataNoEntry(f, n)

\* The read loop of Face f reads a frame that parses as an Interest, and
\* recvInterest sends it on the inbound-Interest channel.
recvInterest(f) ==
    /\ LoopReads(loop[f].state)
    /\ LoopTakesInterest(loop[f].hasIn, "interest")
    /\ InboundCount(loop[f].inLog) < MaxInbound
    /\ loop' = [loop EXCEPT ![f].inLog =
                   ChanSend(@, InboundCount(loop[f].inLog) + 1)]
    /\ UNCHANGED <<lpmPrefix, calls, pit, cs, data, gen, sent, ctl, dl, tv, ln, ky>>

\* The read loop of Face f reads a frame of the given kind that it does not
\* dispatch: it breaks, and closes the inbound-Interest channel if there is one.
LoopStop(f, kind) ==
    /\ LoopReads(loop[f].state)
    /\ LoopBreaks(loop[f].hasIn, kind)
    /\ loop' = [loop EXCEPT ![f] =
                   [state |-> "stopped",
                    hasIn |-> loop[f].hasIn,
                    inLog |-> IF LoopCloses(loop[f].hasIn)
                              THEN ChanClose(loop[f].inLog) ELSE loop[f].inLog,
                    stopBy |-> kind,
                    pend |-> PitMembers(f)]]
    /\ UNCHANGED <<lpmPrefix, calls, pit, cs, data, gen, sent, ctl, dl, tv, ln, ky>>

\* Face.SendData: the Data is written to the transport, whatever the read
\* loop does; late records whether the read loop had terminated by then.
SendData(f, ok) ==
    /\ Len(sent) < MaxSent
    /\ sent' = Append(sent, [face |-> f, ok |-> ok,
                             late |-> loop[f].state = "stopped"])
    /\ UNCHANGED <<lpmPrefix, calls, pit, cs, data, gen, loop, ctl, dl, tv, ln, ky>>

\* Faces made with or without an inbound-Interest channel.
InitLoop ==
    /\ InitFace
    /\ loop \in [Faces -> {NewLoop(b) : b \in BOOLEAN}]
    /\ sent = <<>>
    /\ ctl = Idle
    /\ dl = Idle
    /\ ln = Idle
    /\ ky = Idle
    /\ tv = Idle

NextLoop ==
    \/ \E f \in Faces, n \in Names : SendInterest(f, n)
    \/ \E c \in 1..MaxCalls, life \in LifeTimes, ok \in BOOLEAN : SendInterestUpdate(c, life, ok)
    \/ \E c \in 1..MaxCalls : Expire(c)
    \/ \E f \in Faces, n \in Names : LoopData(f, n, 0)
    \/ \E f \in Faces : recvInterest(f)
    \/ \E f \in Faces, kind \in FrameKinds : LoopStop(f, kind)
    \/ \E f \in Faces, ok \in BOOLEAN : SendData(f, ok)
    \/ Tick

SpecLoop == InitLoop /\ [][NextLoop]_vars

\* The steps that bear on the sinks of SendInterest: those of NextLoop but for
\* recvInterest and SendData, which read and change nothing of calls and PIT.
NextSinks ==
    \/ \E f \in Faces, n \in Names : SendInterest(f, n)
    \/ \E c \in 1..MaxCalls, life \in LifeTimes, ok \in BOOLEAN : SendInterestUpdate(c, life, ok)
    \/ \E c \in 1..MaxCalls : Expire(c)
    \/ \E f \in Faces, n \in Names : LoopData(f, n, 0)
    \/ \E f \in Faces, kind \in FrameKinds : LoopStop(f, kind)
    \/ Tick

\* Timers fire: time goes on while a goroutine sleeps, and a goroutine whose
\* sleep is over is scheduled in the end.  Nothing is assumed of the
\* transport, of the read loop or of the callers.
SpecTimersFire ==
    /\ InitLoop
    /\ [][NextSinks]_vars
    /\ WF_vars(Tick)
    /\ \A c \in 1..MaxCalls : WF_vars(Expire(c))

(* ------------------------ Face.SendControlInterest --------------------- *)

\* ControlResponse.StatusCode values.
StatusCodes == {200, 404}
\* ControlResponse.StatusText values.
StatusTexts == {"OK", "no route"}

\* The nil error.
NoError == <<>>
\* The error Copy returns.
CopyError == <<"copy">>
\* The error of i.WriteTo, which SendInterest returns.
WriteError == <<"write">>
\* fmt.Errorf("control response timeout")
TimeoutError == <<"control response timeout">>
\* The error Unmarshal returns.
UnmarshalError == <<"unmarshal">>
\* fmt.Errorf("(%d) %s", resp.StatusCode, resp.StatusText)
StatusError(code, text) == <<"(", code, ") ", text>>

\* A SendControlInterest that takes every response that unmarshals as a success.
ControlErrorAnyCode(unmarshalOk, code, text) ==
    IF ~unmarshalOk THEN UnmarshalError ELSE NoError

\* SendControlInterest once a Data was received: the error it returns.
ControlError(unmarshalOk, code, text) ==
    IF ~unmarshalOk THEN UnmarshalError
    ELSE IF code # 200 THEN StatusError(code, text)
    ELSE NoError

\* SendControlInterest up to the Content Store lookup of the SendInterest it
\* calls; copyOk is whether Copy(control, i) succeeds.  call is the id of that
\* SendInterest call, 0 if none was made.
ControlStart(f, n, copyOk) ==
    /\ ctl.pc = "idle"
    /\ IF copyOk
       THEN /\ SendInterestCall(f, n)
            /\ ctl' = [pc |-> "wait", call |-> Len(calls) + 1]
       ELSE /\ ctl' = [pc |-> "ret", call |-> 0, got |-> "nothing",
                       unmarshalOk |-> FALSE, code |-> 0, text |-> "",
                       err |-> CopyError]
            /\ UNCHANGED <<lpmPrefix, calls, pit, cs, data, gen>>
    /\ UNCHANGED <<loop, sent, dl, tv, ln, ky>>

\* SendControlInterest from the return of SendInterest to its own return:
\* SendInterest failed, or d, ok := <-ch received a Data or found the sink
\* closed.  unmarshalOk, code and text are what Unmarshal makes of the Content
\* of the Data.
ControlReturn(unmarshalOk, code, text) ==
    /\ ctl.pc = "wait"
    /\ LET c == ctl.call
           got == IF calls[c].pc = "failed" THEN "error"
                  ELSE IF calls[c].ch = <<>> THEN "nothing"
                  ELSE IF calls[c].ch[1] = 0 THEN "closed"
                  ELSE "data"
       IN  /\ calls[c].pc # "update"
           /\ got # "nothing"
           /\ got # "data" => ~unmarshalOk
           /\ ~(got = "data" /\ unmarshalOk) =>
                  code = 0 /\ text = ""
           /\ ctl' = [pc |-> "ret", call |-> c, got |-> got,
                      unmarshalOk |-> unmarshalOk, code |-> code, text |-> text,
                      err |-> IF got = "error" THEN WriteError
                              ELSE IF got = "closed" THEN TimeoutError
                              ELSE ControlError(unmarshalOk, code, text)]
    /\ UNCHANGED <<lpmPrefix, calls, pit, cs, data, gen, loop, sent, dl, tv, ln, ky>>

\* Face.Register, Face.Unregister: the error they return is that of
\* SendControlInterest.
Register(c) == c.err

NextControl ==
    \/ \E f \in Faces, n \in Names : SendInterest(f, n)
    \/ \E c \in 1..MaxCalls, life \in LifeTimes, ok \in BOOLEAN : SendInterestUpdate(c, life, ok)
    \/ \E c \in 1..MaxCalls : Expire(c)
    \/ \E f \in Faces, n \in Names, fresh \in {0, 1} : recvData(f, n, fresh)
    \/ \E f \in Faces, n \in Names : recvDataNoEntry(f, n)
    \/ \E id \in 1..MaxData : RemoveTask(id)
    \/ Tick
    \/ \E f \in Faces, n \in Names, copyOk \in BOOLEAN : ControlStart(f, n, copyOk)
    \/ \E unmarshalOk \in BOOLEAN, code \in StatusCodes \cup {0}, text \in StatusTexts \cup {""} :
           ControlReturn(unmarshalOk, code, text)

SpecControl == Init /\ [][NextControl]_vars

(* ------------------- Face.Dial (src/unnamed/part_001) ------------------ *)

MaxReads == 3
\* Numbers are machine words of WordBits bits (uint64 in the code).
WordBits == 2

Word == 2 ^ WordBits
Numbers == 0..(Word - 1)

\* a + b on uint64
Add(a, b) == (a + b) % Word

\* The markers a Name component may carry; Version stands for every marker
\* that is none of Segment, Sequence and Offset.
Markers == {"Segment", "Sequence", "Offset", "Version"}

\* A Name component that carries no marker.
Plain == <<"plain", 0>>

\* Name components: a marker with its number, or plain bytes.
Comps == (Markers \X Numbers) \cup {Plain}

\* An absent FinalBlockId.
NoComp == <<>>

\* len(d.Content)
ContentLens == {1, 2}

\* The Data frames the transport may deliver: a Name of one plain component
\* and a last component, a FinalBlockId (absent, the last component of the
\* Name, or the last Segment there is) and a Content.
DataFrames ==
    UNION {{[name |-> <<Plain, comp>>, fin |-> fin, len |-> len] :
               fin \in {NoComp, comp, <<"Segment", Word - 1>>},
               len \in ContentLens} : comp \in Comps}

\* The Name of the Interest that Dial is called with.
FirstNames == {<<Plain, <<"Segment", 0>>>>}

\* name.Pop(): the removed component, and the Name that is left.
Pop(name) == [last |-> name[Len(name)], rest |-> SubSeq(name, 1, Len(name) - 1)]

\* name.Push(m, n)
Push(name, mk, n) == Append(name, <<mk, n>>)

\* last.Marker(): whether it returns without error.
HasMarker(comp) == comp # Plain

\* last.Marker(), last.Number()
Marker(comp) == comp[1]
Number(comp) == comp[2]

\* bytes.Equal(d.MetaInfo.FinalBlockId.Component, last)
IsFinal(d) == d.fin = Pop(d.name).last

\* A continuation that advances every marker by one.
NextNumberByOne(mk, n, len) == Add(n, 1)

\* switch m: the number pushed for the next Interest.
NextNumber(mk, n, len) ==
    IF mk = "Offset" THEN Add(n, len) ELSE Add(n, 1)

\* A continuation that goes on after the final Data.
ContinuesAlways(d) == TRUE

\* Whether dial writes a further Interest after Data d.
Continues(d) ==
    /\ ~IsFinal(d)
    /\ HasMarker(Pop(d.name).last)
    /\ Marker(Pop(d.name).last) \in {"Segment", "Sequence", "Offset"}

\* The Name of the Interest that dial writes after Data d.
NextName(d) ==
    LET last == Pop(d.name).last
    IN  Push(Pop(d.name).rest, Marker(last),
             NextNumber(Marker(last), Number(last), d.len))

\* The errors dial sends on h.Error.
DialWriteError == <<"write">>
DialReadError == <<"read">>

\* Dial(i) has returned its Handle: the dial goroutine is about to write i,
\* the forwarding goroutine waits on ih.ReadFrom.  wire: the Names of the
\* Interests written; rcvd: the Data read; fwd: what the forwarding goroutine
\* holds; got: the Data the caller received on h.Data; errs: the errors the
\* caller received on h.Error; closed: whether h.Data is closed, which no
\* statement of Dial or dial does.
NewDial(first) ==
    [pc |-> "write", first |-> first, wire |-> <<>>, rcvd |-> <<>>,
     fwd |-> <<>>, got |-> <<>>, err |-> <<>>, errs |-> <<>>,
     closed |-> FALSE]

\* err := out.WriteTo(this.w)
DialWrite(ok) ==
    /\ dl.pc = "write"
    /\ dl' = IF ok
             THEN [dl EXCEPT !.pc = "read", !.wire = Append(@, dl.first)]
             ELSE [dl EXCEPT !.pc = "error", !.err = DialWriteError]
    /\ UNCHANGED <<lpmPrefix, calls, pit, cs, data, gen, loop, sent, ctl, tv, ln, ky>>

\* p.ReadFrom(this.r) reads Data d.
DialRead(d) ==
    /\ dl.pc = "read"
    /\ Len(dl.rcvd) < MaxReads
    /\ dl' = [dl EXCEPT !.pc = "hand", !.rcvd = Append(@, d)]
    /\ UNCHANGED <<lpmPrefix, calls, pit, cs, data, gen, loop, sent, ctl, tv, ln, ky>>

\* p.ReadFrom(this.r) fails: the deadline passes, the transport fails or the
\* frame is no Data.
DialReadFail ==
    /\ dl.pc = "read"
    /\ dl' = [dl EXCEPT !.pc = "error", !.err = DialReadError]
    /\ UNCHANGED <<lpmPrefix, calls, pit, cs, data, gen, loop, sent, ctl, tv, ln, ky>>

\* h.ReadFrom <- p, received by the forwarding goroutine.
DialHand ==
    /\ dl.pc = "hand"
    /\ dl.fwd = <<>>
    /\ dl' = [dl EXCEPT !.pc = "step", !.fwd = <<dl.rcvd[Len(dl.rcvd)]>>]
    /\ UNCHANGED <<lpmPrefix, calls, pit, cs, data, gen, loop, sent, ctl, tv, ln, ky>>

\* dial from the switch on the Data just handed over to its next read or to
\* EXIT; ok is whether the write of the next Interest succeeds.
DialStep(ok) ==
    /\ dl.pc = "step"
    /\ LET d == dl.rcvd[Len(dl.rcvd)]
       IN  dl' = IF ~Continues(d) THEN [dl EXCEPT !.pc = "exit"]
                 ELSE IF ok
                 THEN [dl EXCEPT !.pc = "read", !.wire = Append(@, NextName(d))]
                 ELSE [dl EXCEPT !.pc = "error", !.err = DialWriteError]
    /\ UNCHANGED <<lpmPrefix, calls, pit, cs, data, gen, loop, sent, ctl, tv, ln, ky>>

\* h.Error <- err, received by the caller; dial goes to EXIT.
DialError ==
    /\ dl.pc = "error"
    /\ dl' = [dl EXCEPT !.pc = "exit", !.errs = Append(@, dl.err)]
    /\ UNCHANGED <<lpmPrefix, calls, pit, cs, data, gen, loop, sent, ctl, tv, ln, ky>>

\* h.Data <- p.(*Data), received by the caller.
DialDeliver ==
    /\ dl.fwd # <<>>
    /\ dl' = [dl EXCEPT !.fwd = <<>>, !.got = Append(@, dl.fwd[1])]
    /\ UNCHANGED <<lpmPrefix, calls, pit, cs, data, gen, loop, sent, ctl, tv, ln, ky>>

InitDial ==
    /\ InitFace
    /\ lpmPrefix = FALSE
    /\ loop = [f \in Faces |-> NewLoop(FALSE)]
    /\ sent = <<>>
    /\ ctl = Idle
    /\ dl \in {NewDial(first) : first \in FirstNames}
    /\ ln = Idle
    /\ ky = Idle
    /\ tv = Idle

NextDial ==
    \/ \E ok \in BOOLEAN : DialWrite(ok)
    \/ \E d \in DataFrames : DialRead(d)
    \/ DialReadFail
    \/ DialHand
    \/ \E ok \in BOOLEAN : DialStep(ok)
    \/ DialError
    \/ DialDeliver

SpecDial == InitDial /\ [][NextDial]_vars

(* ------------------------- TLV codec (src/tlv.go) ---------------------- *)

\* A uint64 is its 8 bytes, the most significant first.
Bytes == 0..255
ZeroWord == <<0, 0, 0, 0, 0, 0, 0, 0>>

\* math.MaxUint32, math.MaxUint16, math.MaxUint8-3 as uint64
MaxUint32 == <<0, 0, 0, 0, 255, 255, 255, 255>>
MaxUint16 == <<0, 0, 0, 0, 0, 0, 255, 255>>
MaxUint8Minus3 == <<0, 0, 0, 0, 0, 0, 0, 252>>

\* a > b on uint64
Gt(a, b) ==
    \E i \in 1..8 :
        /\ a[i] > b[i]
        /\ \A j \in 1..(i - 1) : a[j] = b[j]

\* uint64(v32), uint64(v16), uint64(b): the bytes read, zero-extended.
Extend(bs) == SubSeq(ZeroWord, 1, 8 - Len(bs)) \o bs

\* The uint64 of a number below 2^31.
U64(n) ==
    <<0, 0, 0, 0, (n \div 16777216) % 256, (n \div 65536) % 256,
      (n \div 256) % 256, n % 256>>

\* The uint64 values the codec is run on: every byte but the last is 0, 1 or
\* 255, the last one lies on either side of the one-byte limit.
Words64 ==
    {hi \o <<lo>> : hi \in [1..7 -> {0, 1, 255}],
                    lo \in {0, 1, 251, 252, 253, 254, 255}}

\* What may follow the encoded integer in the buffer.
Tails == {<<>>, <<255>>}

\* The result of readByte: the value, what is left in the buffer, and whether
\* an error is returned.
ReadResult(result, rest, err) == [result |-> result, rest |-> rest, err |-> err]

\* binary.Read(buf, binary.BigEndian, &v) for a v of n bytes, after the first
\* byte of buf was read.
ReadFixed(buf, n) ==
    IF Len(buf) < 1 + n THEN ReadResult(ZeroWord, <<>>, TRUE)
    ELSE ReadResult(Extend(SubSeq(buf, 2, 1 + n)), SubSeq(buf, 2 + n, Len(buf)), FALSE)

readByte(buf) ==
    IF buf = <<>> THEN ReadResult(ZeroWord, <<>>, TRUE)
    ELSE IF buf[1] = 255 THEN ReadFixed(buf, 8)
    ELSE IF buf[1] = 254 THEN ReadFixed(buf, 4)
    ELSE IF buf[1] = 253 THEN ReadFixed(buf, 2)
    ELSE ReadResult(Extend(<<buf[1]>>), SubSeq(buf, 2, Len(buf)), FALSE)

\* A writeByte that writes every value below 256 as one byte.
writeByteUpTo255(v) ==
    IF Gt(v, MaxUint32) THEN <<255>> \o v
    ELSE IF Gt(v, MaxUint16) THEN <<254>> \o SubSeq(v, 5, 8)
    ELSE IF Gt(v, Extend(<<255>>)) THEN <<253>> \o SubSeq(v, 7, 8)
    ELSE <<v[8]>>

\* The bytes writeByte appends to the buffer.
writeByte(v) ==
    IF Gt(v, MaxUint32) THEN <<255>> \o v
    ELSE IF Gt(v, MaxUint16) THEN <<254>> \o SubSeq(v, 5, 8)
    ELSE IF Gt(v, MaxUint8Minus3) THEN <<253>> \o SubSeq(v, 7, 8)
    ELSE <<v[8]>>

\* A countBytes that counts one byte for every value.
countBytesOne(v) == 1

countBytes(v) ==
    IF Gt(v, MaxUint32) THEN 1 + 8
    ELSE IF Gt(v, MaxUint16) THEN 1 + 4
    ELSE IF Gt(v, MaxUint8Minus3) THEN 1 + 2
    ELSE 1

\* writeByte(buf, v) on an empty buffer, and countBytes(v).
VarWrite ==
    /\ tv.pc = "start"
    /\ tv' = [tv EXCEPT !.pc = "written",
                        !.buf = writeByte(tv.v),
                        !.count = countBytes(tv.v)]
    /\ UNCHANGED <<lpmPrefix, calls, pit, cs, data, gen, loop, sent, ctl, dl, ln, ky>>

\* readByte on the bytes written, followed by the tail.
VarRead ==
    /\ tv.pc = "written"
    /\ tv' = [tv EXCEPT !.pc = "read", !.res = readByte(tv.buf \o tv.tail)]
    /\ UNCHANGED <<lpmPrefix, calls, pit, cs, data, gen, loop, sent, ctl, dl, ln, ky>>

InitVar ==
    /\ InitFace
    /\ lpmPrefix = FALSE
    /\ loop = [f \in Faces |-> NewLoop(FALSE)]
    /\ sent = <<>>
    /\ ctl = Idle
    /\ dl = Idle
    /\ ln = Idle
    /\ ky = Idle
    /\ tv \in {[pc |-> "start", v |-> v, tail |-> tail, buf |-> <<>>,
                count |-> 0, res |-> ReadResult(ZeroWord, <<>>, FALSE)] :
                   v \in Words64, tail \in Tails}

NextVar ==
    \/ VarWrite
    \/ VarRead

SpecVar == InitVar /\ [][NextVar]_vars

(* --------------------------- TLV.Len, TLV.Encode ----------------------- *)

MaxTlvDepth == 3
MaxChildren == 2

\* TLV.Type and TLV.Value of the nodes the codec is run on.
TlvTypes == {U64(7)}
TlvValues == {<<>>, <<42>>}

\* TLV{Type, Value, Children}
Node(type, value, children) ==
    [type |-> type, value |-> value, children |-> children]

\* The sequences of at most n elements of S.
SeqsUpTo(S, n) == UNION {[1..k -> S] : k \in 0..n}

\* The trees of at most the given depth below the root, Value and Children
\* being set freely at every node.
RECURSIVE TreesOf(_)
TreesOf(depth) ==
    IF depth = 0
    THEN {Node(t, v, <<>>) : t \in TlvTypes, v \in TlvValues}
    ELSE {Node(t, v, c) : t \in TlvTypes, v \in TlvValues,
                          c \in SeqsUpTo(TreesOf(depth - 1), MaxChildren)}

\* errors.New(VALUE_CHILDREN_COEXIST)
VALUE_CHILDREN_COEXIST == <<"VALUE_CHILDREN_COEXIST">>

\* The nil []byte returned with an error.
NilBytes == <<>>

\* An Encode that takes every node.
CoexistNever(t) == FALSE

\* len(this.Value) != 0 && len(this.Children) != 0
Coexist(t) == Len(t.value) # 0 /\ Len(t.children) # 0

\* TLV.Len
RECURSIVE TlvLen(_)
TlvLen(t) ==
    LET RECURSIVE Sum(_)
        Sum(k) ==
            IF k = 0 THEN 0
            ELSE LET c == t.children[k]
                     l == TlvLen(c)
                 IN  Sum(k - 1) + countBytes(c.type) + countBytes(U64(l)) + l
    IN  IF Len(t.value) = 0 THEN Sum(Len(t.children)) ELSE Len(t.value)

\* TLV.Encode: the bytes and the error it returns.
RECURSIVE Encode(_)
Encode(t) ==
    LET head == writeByte(t.type) \o writeByte(U64(TlvLen(t)))
        RECURSIVE Range(_, _)
        \* The loop over the first k children, the buffer holding buf before it.
        Range(k, buf) ==
            IF k = 0 THEN [bytes |-> buf, err |-> NoError]
            ELSE LET before == Range(k - 1, buf)
                     b == Encode(t.children[k])
                 IN  IF before.err # NoError THEN before
                     ELSE IF b.err # NoError
                     THEN [bytes |-> NilBytes, err |-> b.err]
                     ELSE [bytes |-> before.bytes \o b.bytes, err |-> NoError]
    IN  IF Coexist(t) THEN [bytes |-> NilBytes, err |-> VALUE_CHILDREN_COEXIST]
        ELSE IF Len(t.value) = 0 THEN Range(Len(t.children), head)
        ELSE [bytes |-> head \o t.value, err |-> NoError]

\* this.Encode() and this.Len() on the tree.
TlvEncode ==
    /\ tv.pc = "tree"
    /\ tv' = [tv EXCEPT !.pc = "encoded", !.out = Encode(tv.tree),
                        !.len = TlvLen(tv.tree)]
    /\ UNCHANGED <<lpmPrefix, calls, pit, cs, data, gen, loop, sent, ctl, dl, ln, ky>>

InitTlv ==
    /\ InitFace
    /\ lpmPrefix = FALSE
    /\ loop = [f \in Faces |-> NewLoop(FALSE)]
    /\ sent = <<>>
    /\ ctl = Idle
    /\ dl = Idle
    /\ ln = Idle
    /\ ky = Idle
    /\ tv \in {[pc |-> "tree", tree |-> t, len |-> 0,
                out |-> [bytes |-> NilBytes, err |-> NoError]] :
                   t \in TreesOf(MaxTlvDepth)}

NextTlv == TlvEncode

SpecTlv == InitTlv /\ [][NextTlv]_vars

\* A Value of 253 bytes, whose length takes the 3-byte form.
LongValue == [k \in 1..253 |-> 0]

\* The trees of at most the given depth below the root, over the given Types
\* and Values.
RECURSIVE TreesWith(_, _, _)
TreesWith(depth, types, values) ==
    IF depth = 0
    THEN {Node(t, v, <<>>) : t \in types, v \in values}
    ELSE {Node(t, v, c) : t \in types, v \in values,
                          c \in SeqsUpTo(TreesWith(depth - 1, types, values), MaxChildren)}

\* Trees with short and long Values: those of depth up to 2 over one Type,
\* and those of depth up to 1 over a one-byte and a three-byte Type.
InitLen ==
    /\ InitFace
    /\ lpmPrefix = FALSE
    /\ loop = [f \in Faces |-> NewLoop(FALSE)]
    /\ sent = <<>>
    /\ ctl = Idle
    /\ dl = Idle
    /\ ln = Idle
    /\ ky = Idle
    /\ tv \in {[pc |-> "tree", tree |-> t, len |-> 0,
                out |-> [bytes |-> NilBytes, err |-> NoError]] :
                   t \in TreesWith(2, TlvTypes, TlvValues \cup {LongValue})
                         \cup TreesWith(1, {U64(7), U64(300)},
                                         TlvValues \cup {LongValue})}

SpecLen == InitLen /\ [][NextTlv]_vars

(* ------------------------------- TLV.Decode ---------------------------- *)

MaxRaw == 4

\* The value of a uint64 below 2^31.
ToInt(v) == ((v[5] * 256 + v[6]) * 256 + v[7]) * 256 + v[8]

\* l is more than the n bytes the buffer holds.
Exceeds(v, n) ==
    \/ \E i \in 1..4 : v[i] # 0
    \/ v[5] >= 128
    \/ ToInt(v) > n

\* buf.Next(int(l)): the bytes returned and the bytes left; Next returns what
\* the buffer holds when it holds less than asked for.
Next_(buf, l) ==
    IF Exceeds(l, Len(buf)) THEN [taken |-> buf, rest |-> <<>>]
    ELSE [taken |-> SubSeq(buf, 1, ToInt(l)),
          rest |-> SubSeq(buf, ToInt(l) + 1, Len(buf))]

\* The result of Decode: the node's Type and Value, the bytes returned, whether
\* an error is returned, and whether the call panics instead of returning.
DecodeResult(type, value, rest, err, panic) ==
    [type |-> type, value |-> value, rest |-> rest, err |-> err, panic |-> panic]

\* TLV.Decode
Decode(raw) ==
    LET t == readByte(raw)
        l == readByte(t.rest)
    IN  IF t.err THEN DecodeResult(ZeroWord, <<>>, <<>>, TRUE, FALSE)
        ELSE IF l.err THEN DecodeResult(t.result, <<>>, <<>>, TRUE, FALSE)
        \* int(l) is negative (int has 64 bits): Next panics.
        ELSE IF l.result[1] >= 128
        THEN DecodeResult(t.result, <<>>, <<>>, FALSE, TRUE)
        ELSE DecodeResult(t.result, Next_(l.rest, l.result).taken,
                          Next_(l.rest, l.result).rest, FALSE, FALSE)

\* The inputs of Decode: every sequence of at most MaxRaw bytes that are small
\* or introduce a wider integer, and the beginnings of two frames whose length
\* field has the 8-byte form.
RawInputs ==
    UNION {[1..k -> {0, 1, 2, 253, 254, 255}] : k \in 0..MaxRaw}
    \cup {SubSeq(<<7, 255, 0, 0, 0, 0, 0, 0, 0, 2, 1, 1>>, 1, k) : k \in 0..12}
    \cup {SubSeq(<<7, 255, 255, 0, 0, 0, 0, 0, 0, 0, 1>>, 1, k) : k \in 0..11}

\* this.Decode(raw)
TlvDecode ==
    /\ tv.pc = "raw"
    /\ tv' = [tv EXCEPT !.pc = "decoded", !.dec = Decode(tv.raw)]
    /\ UNCHANGED <<lpmPrefix, calls, pit, cs, data, gen, loop, sent, ctl, dl, ln, ky>>

InitDecode ==
    /\ InitFace
    /\ lpmPrefix = FALSE
    /\ loop = [f \in Faces |-> NewLoop(FALSE)]
    /\ sent = <<>>
    /\ ctl = Idle
    /\ dl = Idle
    /\ ln = Idle
    /\ ky = Idle
    /\ tv \in {[pc |-> "raw", raw |-> raw,
                dec |-> DecodeResult(ZeroWord, <<>>, <<>>, FALSE, FALSE)] :
                   raw \in RawInputs}

NextDecode == TlvDecode

SpecDecode == InitDecode /\ [][NextDecode]_vars

(* ------------------------------ Face.Listen ---------------------------- *)

MaxInterests == 2
MaxWritten == 1

\* ControlResponse.Parameters.FaceId values; the id of a new Face is 0.
FaceIds == {1, 2}

\* A control command as it is written: Name.Module, Name.Command and
\* Parameters.FaceId; ok is whether the write succeeded.
Command(module, command, faceId, ok) ==
    [module |-> module, command |-> command, faceId |-> faceId, ok |-> ok]

\* A create and an announce that take every response as a success.
ResponseErrorNever(code, text) == NoError

\* create and announce: the error for the StatusCode of a response.
ResponseError(code, text) ==
    IF code # 200 THEN StatusError(code, text) ELSE NoError

\* Listen(prefix): the Handle is made and the goroutine is about to call
\* create.  id is this.id; wire the control commands written, answers the
\* control responses read, serving whether the Data writer was started, reads
\* the Interests read, ints those sent on h.Interest, written the Data taken
\* from h.Data, err the error about to be sent on h.Error, errs the errors
\* sent on it.
NewListen ==
    [pc |-> "create", id |-> 0, wire |-> <<>>, answers |-> <<>>,
     serving |-> FALSE, reads |-> 0, ints |-> 0, written |-> 0,
     err |-> NoError, errs |-> <<>>]

\* create up to the write of dial; ok is whether out.WriteTo succeeds.
ListenCreate(ok) ==
    /\ ln.pc = "create"
    /\ ln' = [ln EXCEPT
           !.wire = Append(@, Command("faces", "create", 0, ok)),
           !.pc = IF ok THEN "created" ELSE "error",
           !.err = IF ok THEN NoError ELSE DialWriteError]
    /\ UNCHANGED <<lpmPrefix, calls, pit, cs, data, gen, loop, sent, ctl, dl, tv, ky>>

\* create from the read of dial to its return; readOk is whether p.ReadFrom
\* succeeds before the deadline.
ListenCreated(readOk, code, text, faceId) ==
    /\ ln.pc = "created"
    /\ LET err == IF readOk THEN ResponseError(code, text) ELSE DialReadError
       IN  ln' = [ln EXCEPT
               !.answers = IF readOk
                           THEN Append(@, [code |-> code, faceId |-> faceId])
                           ELSE @,
               !.id = IF err = NoError THEN faceId ELSE @,
               !.pc = IF err = NoError THEN "announce" ELSE "error",
               !.err = err]
    /\ UNCHANGED <<lpmPrefix, calls, pit, cs, data, gen, loop, sent, ctl, dl, tv, ky>>

\* announce up to the write of dial.
ListenAnnounce(ok) ==
    /\ ln.pc = "announce"
    /\ ln' = [ln EXCEPT
           !.wire = Append(@, Command("fib", "add-nexthop", ln.id, ok)),
           !.pc = IF ok THEN "announced" ELSE "error",
           !.err = IF ok THEN NoError ELSE DialWriteError]
    /\ UNCHANGED <<lpmPrefix, calls, pit, cs, data, gen, loop, sent, ctl, dl, tv, ky>>

\* announce from the read of dial to its return; on success the Data writer
\* is started and the goroutine enters its read loop.
ListenAnnounced(readOk, code, text, faceId) ==
    /\ ln.pc = "announced"
    /\ LET err == IF readOk THEN ResponseError(code, text) ELSE DialReadError
       IN  ln' = [ln EXCEPT
               !.answers = IF readOk
                           THEN Append(@, [code |-> code, faceId |-> faceId])
                           ELSE @,
               !.serving = err = NoError,
               !.pc = IF err = NoError THEN "read" ELSE "error",
               !.err = err]
    /\ UNCHANGED <<lpmPrefix, calls, pit, cs, data, gen, loop, sent, ctl, dl, tv, ky>>

\* i.ReadFrom(this.r) in the read loop; ok is whether it succeeds.
ListenRead(ok) ==
    /\ ln.pc = "read"
    /\ ok => ln.reads < MaxInterests
    /\ ln' = [ln EXCEPT
           !.reads = IF ok THEN @ + 1 ELSE @,
           !.pc = IF ok THEN "deliver" ELSE "error",
           !.err = IF ok THEN NoError ELSE DialReadError]
    /\ UNCHANGED <<lpmPrefix, calls, pit, cs, data, gen, loop, sent, ctl, dl, tv, ky>>

\* h.Interest <- i, taken by the server.
ListenDeliver ==
    /\ ln.pc = "deliver"
    /\ ln' = [ln EXCEPT !.ints = @ + 1, !.pc = "read"]
    /\ UNCHANGED <<lpmPrefix, calls, pit, cs, data, gen, loop, sent, ctl, dl, tv, ky>>

\* h.Error <- err, taken by the server; the goroutine returns.
ListenError ==
    /\ ln.pc = "error"
    /\ ln' = [ln EXCEPT !.errs = Append(@, ln.err), !.pc = "returned"]
    /\ UNCHANGED <<lpmPrefix, calls, pit, cs, data, gen, loop, sent, ctl, dl, tv, ky>>

\* The Data writer takes a Data the server sent on h.Data and writes it; a
\* failed write is sent on h.Error.
ListenData(ok) ==
    /\ ln.pc # "idle"
    /\ ln.serving
    /\ ln.written < MaxWritten
    /\ ln' = [ln EXCEPT !.written = @ + 1,
                        !.errs = IF ok THEN @ ELSE Append(@, DialWriteError)]
    /\ UNCHANGED <<lpmPrefix, calls, pit, cs, data, gen, loop, sent, ctl, dl, tv, ky>>

InitListen ==
    /\ InitFace
    /\ lpmPrefix = FALSE
    /\ loop = [f \in Faces |-> NewLoop(FALSE)]
    /\ sent = <<>>
    /\ ctl = Idle
    /\ dl = Idle
    /\ tv = Idle
    /\ ln = NewListen
    /\ ky = Idle

NextListen ==
    \/ \E ok \in BOOLEAN : ListenCreate(ok)
    \/ \E readOk \in BOOLEAN, code \in StatusCodes, text \in StatusTexts,
          faceId \in FaceIds : ListenCreated(readOk, code, text, faceId)
    \/ \E ok \in BOOLEAN : ListenAnnounce(ok)
    \/ \E readOk \in BOOLEAN, code \in StatusCodes, text \in StatusTexts,
          faceId \in FaceIds : ListenAnnounced(readOk, code, text, faceId)
    \/ \E ok \in BOOLEAN : ListenRead(ok)
    \/ ListenDeliver
    \/ ListenError
    \/ \E ok \in BOOLEAN : ListenData(ok)

SpecListen == InitListen /\ [][NextListen]_vars

(* ----------------------------------- Key ------------------------------- *)

MaxKeyOps == 2

\* Private keys and the public key of each.
PrivateKeys == {1, 2}
PublicKey(d) == d + 10

\* The zero value of the private fields of rsa.PrivateKey and ecdsa.PrivateKey.
NoPrivate == 0

Digests == {"d1", "d2"}

\* The random numbers ecdsa.Sign draws.
Nonces == {1, 2}

\* The errors are the texts of fmt.Errorf and of the libraries: "unsupported
\* key type", "crypto/ecdsa: verification error", rsa.ErrVerification, the
\* errors of asn1.Unmarshal and of x509, and the error of a crypto library
\* that is given a key without private fields.

\* Key.PrivateKey: type is its dynamic type ("nil" for the nil interface),
\* pub and d the public and the private fields of the struct pointed to.
PrivateKey(type, pub, d) == [type |-> type, pub |-> pub, d |-> d]
NilKey == PrivateKey("nil", 0, NoPrivate)

\* What a certificate body holds for DecodePublicKey: whether asn1.Unmarshal
\* and x509.ParsePKIXPublicKey succeed, and the type and value of the key.
Certificates ==
    [asn1Ok : BOOLEAN, pkixOk : BOOLEAN, type : {"rsa", "ecdsa", "dsa"},
     pub : {PublicKey(d) : d \in PrivateKeys}]

\* The switch of DecodePublicKey on the parsed public key: the PrivateKey it
\* stores (old is the one the Key holds).
PublicKeyOf(old, type, pub) ==
    IF type \in {"rsa", "ecdsa"} THEN PrivateKey(type, pub, NoPrivate) ELSE old

\* Key.DecodePublicKey: the PrivateKey of the Key afterwards and the error.
DecodePublicKey(old, c) ==
    IF ~c.asn1Ok THEN [key |-> old, err |-> <<"asn1">>]
    ELSE IF ~c.pkixOk THEN [key |-> old, err |-> <<"x509">>]
    ELSE [key |-> PublicKeyOf(old, c.type, c.pub),
          err |-> IF c.type \in {"rsa", "ecdsa"} THEN NoError
                  ELSE <<"unsupported key type">>]

\* rsa.SignPKCS1v15(rand.Reader, key, crypto.SHA256, digest)
RsaSignature(d, digest) == <<"pkcs1v15", d, digest>>

\* asn1.Marshal(ecdsaSignature{R, S}) of the pair ecdsa.Sign returns for the
\* random number k.
EcdsaSignature(d, digest, k) == <<"sequence", k, <<k, d, digest>>>>

\* The result of sign: the signature, the error, and whether the call panics
\* instead of returning.
SignResult(sig, err, panic) == [sig |-> sig, err |-> err, panic |-> panic]

\* What rsa.SignPKCS1v15 and ecdsa.Sign do with a key whose private fields
\* are nil: they dereference them or report their own error.
MissingPrivate == {SignResult(<<>>, NoError, TRUE), SignResult(<<>>, <<"crypto: missing private key">>, FALSE)}

\* Key.sign: the results it can have; k is the random number drawn.
sign(key, digest, k) ==
    IF key.type = "rsa"
    THEN IF key.d = NoPrivate THEN MissingPrivate
         ELSE {SignResult(RsaSignature(key.d, digest), NoError, FALSE)}
    ELSE IF key.type = "ecdsa"
    THEN IF key.d = NoPrivate THEN MissingPrivate
         ELSE {SignResult(EcdsaSignature(key.d, digest, k), NoError, FALSE)}
    ELSE {SignResult(<<>>, <<"unsupported key type">>, FALSE)}

\* The byte strings given to Verify as signatures: those sign produces, a
\* well-formed ECDSA signature with another R, and one that is no ASN.1.
Signatures ==
    {RsaSignature(d, g) : d \in PrivateKeys, g \in Digests}
    \cup {EcdsaSignature(d, g, k) : d \in PrivateKeys, g \in Digests, k \in Nonces}
    \cup {<<"sequence", 3 - k, <<k, d, g>>>> :
             d \in PrivateKeys, g \in Digests, k \in Nonces}
    \cup {<<"junk">>}

\* rsa.VerifyPKCS1v15(&key.PublicKey, crypto.SHA256, digest, signature)
RsaVerifies(pub, digest, signature) ==
    \E d \in PrivateKeys :
        PublicKey(d) = pub /\ signature = RsaSignature(d, digest)

\* asn1.Unmarshal(signature, &sig) succeeds.
IsSequence(signature) == Len(signature) = 3 /\ signature[1] = "sequence"

\* ecdsa.Verify(&key.PublicKey, digest, sig.R, sig.S)
EcdsaVerifies(pub, digest, r, s) ==
    \E d \in PrivateKeys : PublicKey(d) = pub /\ s = <<r, d, digest>>

\* A Verify that checks every signature with the RSA scheme.
VerifyRsaOnly(key, digest, signature) ==
    IF key.type \in {"rsa", "ecdsa"}
    THEN IF RsaVerifies(key.pub, digest, signature) THEN NoError
         ELSE <<"crypto/rsa: verification error">>
    ELSE <<"unsupported key type">>

\* Key.Verify: the error it returns.
Verify(key, digest, signature) ==
    IF key.type = "rsa"
    THEN IF RsaVerifies(key.pub, digest, signature) THEN NoError
         ELSE <<"crypto/rsa: verification error">>
    ELSE IF key.type = "ecdsa"
    THEN IF ~IsSequence(signature) THEN <<"asn1">>
         ELSE IF EcdsaVerifies(key.pub, digest, signature[2], signature[3])
         THEN NoError
         ELSE <<"crypto/ecdsa: verification error">>
    ELSE <<"unsupported key type">>

\* A Key made from a private key of either kind, or the zero Key.
NewKeys ==
    {PrivateKey(type, PublicKey(d), d) : type \in {"rsa", "ecdsa"}, d \in PrivateKeys}
    \cup {NilKey}

\* key.DecodePublicKey(raw)
KeyDecodePublic(c) ==
    /\ ky.pc = "key"
    /\ ky.ops < MaxKeyOps
    /\ LET r == DecodePublicKey(ky.key, c)
       IN  ky' = [ky EXCEPT !.key = r.key, !.ops = @ + 1,
                            !.public = r.err = NoError \/ @,
                            !.last = [op |-> "decodePublic", err |-> r.err]]
    /\ UNCHANGED <<lpmPrefix, calls, pit, cs, data, gen, loop, sent, ctl, dl, tv, ln>>

\* key.sign(digest)
KeySign(digest, k) ==
    /\ ky.pc = "key"
    /\ ky.ops < MaxKeyOps
    /\ \E r \in sign(ky.key, digest, k) :
          ky' = [ky EXCEPT !.ops = @ + 1,
                           !.pc = IF r.panic THEN "panic" ELSE @,
                           !.signed = IF r.err = NoError /\ ~r.panic
                                      THEN <<digest, r.sig>> ELSE @,
                           !.last = [op |-> "sign", digest |-> digest,
                                     sig |-> r.sig, err |-> r.err,
                                     panic |-> r.panic]]
    /\ UNCHANGED <<lpmPrefix, calls, pit, cs, data, gen, loop, sent, ctl, dl, tv, ln>>

\* key.Verify(digest, signature); the signature is the one sign returned last
\* or any other.
KeyVerify(digest, signature) ==
    /\ ky.pc = "key"
    /\ ky.ops < MaxKeyOps
    /\ ky' = [ky EXCEPT !.ops = @ + 1,
                        !.last = [op |-> "verify", digest |-> digest,
                                  sig |-> signature,
                                  err |-> Verify(ky.key, digest, signature)]]
    /\ UNCHANGED <<lpmPrefix, calls, pit, cs, data, gen, loop, sent, ctl, dl, tv, ln>>

InitKey ==
    /\ InitFace
    /\ lpmPrefix = FALSE
    /\ loop = [f \in Faces |-> NewLoop(FALSE)]
    /\ sent = <<>>
    /\ ctl = Idle
    /\ dl = Idle
    /\ tv = Idle
    /\ ln = Idle
    /\ ky \in {[pc |-> "key", key |-> key, ops |-> 0, public |-> FALSE,
                signed |-> <<>>, last |-> [op |-> "none"]] : key \in NewKeys}

NextKey ==
    \/ \E c \in Certificates : KeyDecodePublic(c)
    \/ \E digest \in Digests, k \in Nonces : KeySign(digest, k)
    \/ \E digest \in Digests, signature \in Signatures : KeyVerify(digest, signature)

SpecKey == InitKey /\ [][NextKey]_vars

(* --------------------- private keys in armored text -------------------- *)

\* Name.String(): the components, each after a "/"; "/" alone for no
\* component.
NameString(n) ==
    LET RECURSIVE Join(_)
        Join(k) == IF k = 0 THEN <<>> ELSE Join(k - 1) \o <<"/", n[k]>>
    IN  IF Len(n) = 0 THEN <<"/">> ELSE Join(Len(n))

\* NewName(s): the parts of s between the "/".
NewName(s) == SelectSeq(s, LAMBDA c : c # "/")

\* x509.MarshalPKCS1PrivateKey (form "pkcs1") and x509.MarshalECPrivateKey
\* (form "sec1").
MarshalPrivateKey(form, key) == <<form, key.pub, key.d>>

\* x509.ParsePKCS1PrivateKey (form "pkcs1", a *rsa.PrivateKey) and
\* x509.ParseECPrivateKey (form "sec1", a *ecdsa.PrivateKey): the key and the
\* error; with an error the key is a nil pointer of the type.
ParsePrivateKey(form, type, b) ==
    IF Len(b) = 3 /\ b[1] = form
    THEN [key |-> PrivateKey(type, b[2], b[3]), err |-> NoError]
    ELSE [key |-> PrivateKey(type \o "-nil", 0, NoPrivate), err |-> <<"x509">>]

\* pem.Block{Type, Headers{"NAME"}, Bytes}; pem.Encode writes it and
\* pem.Decode finds it again.  NotPem is data in which pem.Decode finds no
\* block.
Block(type, name, bytes) == [type |-> type, name |-> name, bytes |-> bytes]
NotPem == <<>>

\* An EncodePrivateKey that labels every key as an RSA key.
KeyTypeRsa(type) == "RSA PRIVATE KEY"

\* EncodePrivateKey: the Type of the block for the dynamic type of the key.
KeyType(type) ==
    IF type = "rsa" THEN "RSA PRIVATE KEY" ELSE "ECDSA PRIVATE KEY"

\* Key.EncodePrivateKey: what is written to buf, and the error.
EncodePrivateKey(name, key) ==
    IF key.type = "rsa"
    THEN [pem |-> Block(KeyType(key.type), NameString(name),
                        MarshalPrivateKey("pkcs1", key)),
          err |-> NoError]
    ELSE IF key.type = "ecdsa"
    THEN [pem |-> Block(KeyType(key.type), NameString(name),
                        MarshalPrivateKey("sec1", key)),
          err |-> NoError]
    ELSE [pem |-> NotPem, err |-> <<"unsupported key type">>]

\* Key.DecodePrivateKey on a Key holding name and key: the Name and the
\* PrivateKey it holds afterwards, and the error.
DecodePrivateKey(name, key, pemData) ==
    IF pemData = NotPem
    THEN [name |-> name, key |-> key, err |-> <<"not pem data">>]
    ELSE IF pemData.type = "RSA PRIVATE KEY"
    THEN [name |-> NewName(pemData.name),
          key |-> ParsePrivateKey("pkcs1", "rsa", pemData.bytes).key,
          err |-> ParsePrivateKey("pkcs1", "rsa", pemData.bytes).err]
    ELSE IF pemData.type = "ECDSA PRIVATE KEY"
    THEN [name |-> NewName(pemData.name),
          key |-> ParsePrivateKey("sec1", "ecdsa", pemData.bytes).key,
          err |-> ParsePrivateKey("sec1", "ecdsa", pemData.bytes).err]
    ELSE [name |-> NewName(pemData.name), key |-> key,
          err |-> <<"unsupported key type">>]

\* key.EncodePrivateKey(buf)
KeyEncodePrivate ==
    /\ ky.pc = "encode"
    /\ LET r == EncodePrivateKey(ky.name, ky.key)
       IN  ky' = [ky EXCEPT !.pc = "decode", !.pem = r.pem, !.encErr = r.err]
    /\ UNCHANGED <<lpmPrefix, calls, pit, cs, data, gen, loop, sent, ctl, dl, tv, ln>>

\* new(Key).DecodePrivateKey(pemData)
KeyDecodePrivate(pemData) ==
    /\ ky.pc = "decode"
    /\ LET r == DecodePrivateKey(<<>>, NilKey, pemData)
       IN  ky' = [ky EXCEPT !.pc = "done", !.read = pemData,
                            !.copy = [name |-> r.name, key |-> r.key],
                            !.decErr = r.err]
    /\ UNCHANGED <<lpmPrefix, calls, pit, cs, data, gen, loop, sent, ctl, dl, tv, ln>>

\* new(Key).DecodePrivateKey(buf.Bytes()), buf being what EncodePrivateKey
\* wrote.
KeyDecodeWritten ==
    /\ ky.pc = "decode"
    /\ KeyDecodePrivate(ky.pem)

(* ----------------------------- Interest, Data -------------------------- *)

\* A number field as Value bytes, the most significant first, in 1 or 2 bytes.
EncodeNumber(n) == IF n < 256 THEN <<n>> ELSE <<n \div 256, n % 256>>
DecodeNumber(v) ==
    IF Len(v) = 1 THEN v[1] ELSE IF Len(v) = 2 THEN v[1] * 256 + v[2] ELSE 0

\* The node of a packet field, left out when the field is absent.
Field(present, type, value, children) ==
    IF present THEN <<Node(U64(type), value, children)>> ELSE <<>>

\* A number field, absent when the number is 0.
NumberNode(type, n) == Field(n # 0, type, EncodeNumber(n), <<>>)

\* The Name as a node (Type 7): one node (Type 8) per component.
NameNode(n) ==
    Node(U64(7), <<>>,
         [k \in 1..Len(n) |-> Node(U64(8), n[k], <<>>)])

\* The nodes TLV.Decode finds one after another in b; <<>> when one does
\* not decode.
RECURSIVE Scan(_)
Scan(b) ==
    IF b = <<>> THEN <<>>
    ELSE LET r == Decode(b)
         IN  IF r.err \/ r.panic THEN <<>>
             ELSE <<[type |-> r.type, value |-> r.value]>> \o Scan(r.rest)

\* The Values of the nodes of the given Type among those scanned.
Values(nodes, type) ==
    LET hits == SelectSeq(nodes, LAMBDA x : x.type = U64(type))
    IN  [k \in 1..Len(hits) |-> hits[k].value]

\* The Value of the first node of the Type, <<>> when there is none.
Value(nodes, type) ==
    IF Values(nodes, type) = <<>> THEN <<>> ELSE Values(nodes, type)[1]

\* Interest.Encode: the tree of the Interest (Type 5), encoded.  Its fields
\* are Name 7, Selectors 9 (MinSuffixComponents 13, MaxSuffixComponents 14,
\* ChildSelector 17, MustBeFresh 18), Nonce 10, Scope 11, InterestLifeTime 12.
InterestEncode(i) ==
    LET sel == NumberNode(13, i.min) \o NumberNode(14, i.max)
               \o NumberNode(17, i.child) \o Field(i.fresh, 18, <<>>, <<>>)
    IN  Encode(Node(U64(5), <<>>,
            <<NameNode(i.name)>>
            \o Field(sel # <<>>, 9, <<>>, sel)
            \o Field(i.nonce # <<>>, 10, i.nonce, <<>>)
            \o NumberNode(11, i.scope)
            \o NumberNode(12, i.life)))

\* Interest.Decode
InterestDecode(b) ==
    LET top == Scan(Value(Scan(b), 5))
        sel == Scan(Value(top, 9))
    IN  [kind |-> "interest",
         name |-> Values(Scan(Value(top, 7)), 8),
         min |-> DecodeNumber(Value(sel, 13)),
         max |-> DecodeNumber(Value(sel, 14)),
         child |-> DecodeNumber(Value(sel, 17)),
         fresh |-> Values(sel, 18) # <<>>,
         nonce |-> Value(top, 10),
         scope |-> DecodeNumber(Value(top, 11)),
         life |-> DecodeNumber(Value(top, 12))]

\* Data.Encode, without the signature: the tree of the Data (Type 6).  Its
\* fields are Name 7, MetaInfo 20 (ContentType 24, FreshnessPeriod 25,
\* FinalBlockId 26) and Content 21.
DataEncode(d) ==
    LET meta == NumberNode(24, d.contentType) \o NumberNode(25, d.fresh)
                \o Field(d.final # <<>>, 26, d.final, <<>>)
    IN  Encode(Node(U64(6), <<>>,
            <<NameNode(d.name)>>
            \o Field(meta # <<>>, 20, <<>>, meta)
            \o Field(d.content # <<>>, 21, d.content, <<>>)))

\* Data.Decode
DataDecode(b) ==
    LET top == Scan(Value(Scan(b), 6))
        meta == Scan(Value(top, 20))
    IN  [kind |-> "data",
         name |-> Values(Scan(Value(top, 7)), 8),
         contentType |-> DecodeNumber(Value(meta, 24)),
         fresh |-> DecodeNumber(Value(meta, 25)),
         final |-> Value(meta, 26),
         content |-> Value(top, 21)]

\* The packets encoded: the values the tests set, their zero values, and a
\* lifetime that takes two bytes.
Interests ==
    [kind : {"interest"}, name : {<<>>, <<<<97>>, <<98, 99>>>>}, min : {0, 3}, max : {0, 5},
     child : {0, 4}, fresh : BOOLEAN, nonce : {<<>>, <<1, 2, 3>>},
     scope : {0, 8}, life : {0, 9, 4000}]
Datas ==
    [kind : {"data"}, name : {<<>>, <<<<97>>, <<98, 99>>>>},
     contentType : {0, 2},
     fresh : {0, 3, 4000}, final : {<<>>, <<104, 105>>},
     content : {<<>>, <<1, 2, 3>>}]

\* x.Encode()
PacketEncode ==
    /\ tv.pc = "packet"
    /\ tv' = [tv EXCEPT !.pc = "encoded",
                        !.out = IF tv.x.kind = "interest"
                                THEN InterestEncode(tv.x) ELSE DataEncode(tv.x)]
    /\ UNCHANGED <<lpmPrefix, calls, pit, cs, data, gen, loop, sent, ctl, dl, ln, ky>>

\* y.Decode(b) of the bytes written.
PacketDecode ==
    /\ tv.pc = "encoded"
    /\ tv' = [tv EXCEPT !.pc = "decoded",
                        !.y = IF tv.x.kind = "interest"
                              THEN InterestDecode(tv.out.bytes)
                              ELSE DataDecode(tv.out.bytes)]
    /\ UNCHANGED <<lpmPrefix, calls, pit, cs, data, gen, loop, sent, ctl, dl, ln, ky>>

InitRoundTrip ==
    /\ InitFace
    /\ lpmPrefix = FALSE
    /\ loop = [f \in Faces |-> NewLoop(FALSE)]
    /\ sent = <<>>
    /\ ctl = Idle
    /\ dl = Idle
    /\ ln = Idle
    /\ \/ /\ tv = Idle
          /\ ky \in {[pc |-> "encode", name |-> n, key |-> key, pem |-> NotPem,
                      encErr |-> NoError, read |-> NotPem,
                      copy |-> [name |-> <<>>, key |-> NilKey],
                      decErr |-> NoError] : n \in {<<>>, <<"a">>, <<"a", "b">>},
                                            key \in NewKeys}
       \/ /\ ky = Idle
          /\ tv \in {[pc |-> "packet", x |-> x,
                      out |-> [bytes |-> NilBytes, err |-> NoError],
                      y |-> x] : x \in Interests \cup Datas}

NextRoundTrip ==
    \/ KeyEncodePrivate
    \/ KeyDecodeWritten
    \* Armored text that no EncodePrivateKey wrote.
    \/ \E pemData \in {NotPem, Block("DSA PRIVATE KEY", <<"/", "a">>, <<"dsa">>),
                        Block("RSA PRIVATE KEY", <<"/", "a">>, <<"sec1", 11, 1>>)} :
          KeyDecodePrivate(pemData)
    \/ PacketEncode
    \/ PacketDecode

SpecRoundTrip == InitRoundTrip /\ [][NextRoundTrip]_vars

(* ------------------------------- claims -------------------------------- *)

C2_OneShot ==
    \A c \in Idx :
        \/ Untouched(c)
        \/ ClosedNoData(c)
        \/ Delivered(c)

\* An expiry has fired on a sink that Data had satisfied before, and another
\* sink was closed by its expiry.
C2_Witness ==
    \E c \in Idx, d \in Idx :
        /\ Delivered(c) /\ calls[c].pc = "done"
        /\ ClosedNoData(d) /\ calls[d].pc = "done"

\* C3: Content Store hit.  A SendInterest issued while the Content Store holds
\* an entry for its Name returns a sink that holds the cached Data and is
\* closed, writes no Interest, leaves the PIT (and every other call) as it
\* was, and starts no expiry goroutine.
C3_CacheHit ==
    [][ Len(calls') = Len(calls) + 1 /\ cs[calls'[Len(calls')].name] # 0 =>
            LET c == Len(calls')
            IN  /\ calls'[c].ch = <<cs[calls'[c].name], 0>>
                /\ calls'[c].pc = "hit"
                /\ ~calls'[c].wrote
                /\ pit' = pit
                /\ gen' = gen
                /\ cs' = cs
                /\ data' = data
                /\ \A d \in Idx : calls'[d] = calls[d] ]_vars

\* A call was answered from the Content Store.
C3_Witness ==
    \E c \in Idx :
        /\ calls[c].pc = "hit"
        /\ Delivered(c)
        /\ ~InPit(c)

\* C4: cache window.  A Data with FreshnessPeriod F > 0 that was put in the
\* Content Store keeps its Name servable from the Content Store until F has
\* elapsed since its arrival.
C4_CacheWindow ==
    \A id \in 1..Len(data) :
        data[id].cached /\ data[id].age < data[id].fresh =>
            cs[data[id].name] # 0

C6_ZeroFreshnessNotCached ==
    /\ \A id \in 1..Len(data) : data[id].cached => data[id].fresh > 0
    /\ \A n \in Names :
           cs[n] # 0 => cs[n] \in 1..Len(data) /\ data[cs[n]].fresh > 0
    /\ \A n \in Names :
           (\A id \in 1..Len(data) : data[id].name = n => data[id].fresh = 0) =>
               /\ cs[n] = 0
               /\ \A c \in Idx : calls[c].name = n => calls[c].pc # "hit"

\* Two Data with FreshnessPeriod 0 were delivered for one Name, to two calls,
\* and the Content Store has no entry for the Name.
C6_Witness ==
    \E c \in Idx, d \in Idx :
        /\ c # d
        /\ calls[c].name = calls[d].name
        /\ Delivered(c) /\ Delivered(d)
        /\ calls[c].ch[1] # calls[d].ch[1]
        /\ data[calls[c].ch[1]].fresh = 0
        /\ data[calls[d].ch[1]].fresh = 0
        /\ data[calls[c].ch[1]].name = calls[c].name
        /\ data[calls[d].ch[1]].name = calls[c].name
        /\ cs[calls[c].name] = 0

\* C7: PIT entry lifecycle.  Every PIT entry has at least one member, and
\* every member is a call of that Face and Name whose sink is untouched and
\* whose expiry has not fired.
C7_PitLifecycle ==
    \A f \in Faces, n \in Names :
        pit[f][n] # Nil =>
            /\ pit[f][n][1] # {}
            /\ \A c \in pit[f][n][1] :
                   /\ c \in Idx
                   /\ calls[c].face = f
                   /\ calls[c].name = n
                   /\ Untouched(c)
                   /\ calls[c].pc = "sleep"

\* Both members of one entry were closed by their own expiries, the second of
\* which deleted the entry.
C7_Witness ==
    \E c \in Idx, d \in Idx :
        /\ c # d
        /\ SameEntry(c, d)
        /\ calls[c].fired = "closed"
        /\ calls[d].fired = "closed"
        /\ pit[calls[c].face][calls[c].name] = Nil

\* C8 as claimed: callers of one entry are closed together on timeout.  No
\* sink of an entry is closed by expiry while another member of the same
\* entry is still pending with time left to sleep.
C8_ClosedTogether ==
    \A c \in Idx, d \in Idx :
        SameEntry(c, d) /\ ClosedNoData(c) =>
            ~(InPit(d) /\ Untouched(d) /\ calls[d].left > 0)

\* C8, amended: the members of an entry that are still pending when a Data is
\* dispatched to it all hold that same Data afterwards, none is left pending;
\* a sink is closed without Data only by its own expiry, after its own
\* LifeTime has elapsed.
C8_SharedOutcome ==
    /\ \A c \in Idx, d \in Idx :
           SameEntry(c, d) /\ Delivered(c) =>
               /\ ~Untouched(d)
               /\ Delivered(d) => calls[d].ch[1] = calls[c].ch[1]
    /\ \A c \in Idx :
           ClosedNoData(c) =>
               /\ calls[c].pc = "done"
               /\ calls[c].fired = "closed"
               /\ calls[c].left = 0

\* One member of an entry was closed by its expiry and another member of the
\* same entry received a Data later.
C8_Witness ==
    \E c \in Idx, d \in Idx :
        /\ SameEntry(c, d)
        /\ ClosedNoData(c)
        /\ Delivered(d)

\* C9: expiry is idempotent and touches only its own sink.  A step of the
\* expiry goroutine of call c changes no other call; when c is not a member of
\* the entry of its Name (it was satisfied, or the entry is gone or is a newer
\* one) it closes nothing and leaves the PIT as it is; in any case every other
\* member of the PIT stays a member.
C9_ExpiryOwnSinkOnly ==
    [][ \A c \in Idx :
            calls[c].pc = "sleep" /\ calls'[c].pc = "done" =>
                /\ \A d \in Idx \ {c} : calls'[d] = calls[d]
                /\ ~InPit(c) => pit' = pit /\ calls'[c].ch = calls[c].ch
                /\ \A f \in Faces, n \in Names :
                       pit[f][n] # Nil /\ pit[f][n][1] \ {c} # {} =>
                           pit'[f][n] # Nil /\ pit'[f][n][1] = pit[f][n][1] \ {c} ]_vars

\* The expiry of a call that Data had satisfied fired while a newer entry for
\* the same Name was pending, and that entry is still there.
C9_Witness ==
    \E c \in Idx, d \in Idx :
        /\ c # d
        /\ Delivered(c)
        /\ calls[c].fired = "notmember"
        /\ calls[d].face = calls[c].face
        /\ calls[d].name = calls[c].name
        /\ calls[d].epoch > calls[c].epoch
        /\ InPit(d)

\* C11: every sink that SendInterest returned is closed in the end, and is then
\* no member of the PIT: it holds one Data and is closed, or it was closed
\* without Data by its own expiry after its LifeTime had elapsed.  Nothing is
\* assumed of Data arriving, of the caller reading, or of the read loop.
C11_EventuallyClosed ==
    \A c \in 1..MaxCalls :
        (c \in Idx /\ calls[c].pc \in {"sleep", "hit", "done"})
            ~> /\ c \in Idx
               /\ ~InPit(c)
               /\ \/ Delivered(c)
                  \/ /\ ClosedNoData(c)
                     /\ calls[c].fired = "closed"
                     /\ calls[c].left = 0

\* A sink that was pending when the read loop of its Face terminated was
\* closed without Data by its expiry, and is gone from the PIT.
C11_Witness ==
    \E c \in Idx :
        /\ loop[calls[c].face].state = "stopped"
        /\ c \in loop[calls[c].face].pend
        /\ ClosedNoData(c)
        /\ calls[c].fired = "closed"
        /\ ~InPit(c)

\* C12: a read failure is propagated to the pending requests.  Once the read
\* loop of a Face has terminated on a failed read, every sink that was a
\* member of the PIT of the Face at that moment is closed without Data.
C12_ReadFailurePropagates ==
    \A f \in Faces :
        loop[f].state = "stopped" /\ loop[f].stopBy = "other" =>
            \A c \in loop[f].pend : ClosedNoData(c)

\* C13: read loop termination.  A read loop that has stopped stays stopped and
\* does nothing more: the inbound-Interest channel, if there is one, was closed
\* exactly once, by the stop, and nothing is sent on it after the close (while
\* the loop runs the channel is open); a nil channel is never used; and no
\* sink of the Face receives a Data from then on, the only thing that still
\* happens to a pending sink being its expiry.
C13_LoopTermination ==
    /\ [](\A f \in Faces :
            LET log == loop[f].inLog
                closes == {k \in 1..Len(log) : log[k] = 0}
            IN  /\ ~loop[f].hasIn => log = <<>>
                /\ loop[f].state = "running" => closes = {} /\ loop[f].stopBy = ""
                /\ loop[f].state = "stopped" /\ loop[f].hasIn =>
                       closes = {Len(log)} /\ loop[f].stopBy = "other")
    /\ [][\A f \in Faces :
            loop[f].state = "stopped" =>
                /\ loop'[f] = loop[f]
                /\ \A c \in Idx :
                       calls[c].face = f /\ calls'[c].ch # calls[c].ch =>
                           calls'[c].ch = <<0>> /\ calls'[c].fired = "closed"]_vars

\* The read loop of a Face with an inbound-Interest channel passed on one
\* Interest and then stopped on a frame that is neither Data nor Interest;
\* after that a SendInterest on the Face wrote its Interest and registered its
\* sink, and a SendData wrote its Data.
C13_Witness ==
    \E f \in Faces, c \in Idx, k \in 1..Len(sent) :
        /\ loop[f].state = "stopped"
        /\ loop[f].stopBy = "other"
        /\ loop[f].inLog = <<1, 0>>
        /\ calls[c].face = f
        /\ calls[c].wrote
        /\ InPit(c)
        /\ c \notin loop[f].pend
        /\ sent[k].face = f
        /\ sent[k].late
        /\ sent[k].ok

\* C14: with a nil inbound-Interest channel an Interest frame is dropped and
\* the read loop keeps running.  The read loop of a Face made without an
\* inbound-Interest channel is never brought to a stop by an Interest frame.
C14_NilChannelDropsInterest ==
    \A f \in Faces :
        ~loop[f].hasIn => ~(loop[f].state = "stopped" /\ loop[f].stopBy = "interest")

\* C15: SendControlInterest, and Register and Unregister with it, return the
\* nil error exactly when a Data was received on the sink, its Content
\* unmarshalled and its StatusCode is 200.  A response with another StatusCode
\* gives the error made of that code and its text, a sink closed without Data
\* the timeout error, a failed write the write error; these errors differ.
C15_ControlOutcome ==
    ctl.pc = "ret" =>
        LET c == ctl.call
            received == c \in Idx /\ Delivered(c)
        IN  /\ Register(ctl) = NoError <=>
                   received /\ ctl.unmarshalOk /\ ctl.code = 200
            /\ received /\ ctl.unmarshalOk /\ ctl.code # 200 =>
                   Register(ctl) = StatusError(ctl.code, ctl.text)
            /\ c \in Idx /\ ClosedNoData(c) => Register(ctl) = TimeoutError
            /\ c \in Idx /\ calls[c].pc = "failed" => Register(ctl) = WriteError
            /\ Cardinality({NoError, WriteError, TimeoutError,
                            StatusError(ctl.code, ctl.text)}) = 4

\* A control Interest was written, its Data arrived with StatusCode 200 and
\* SendControlInterest returned the nil error.
C15_Witness ==
    /\ ctl.pc = "ret"
    /\ ctl.call \in Idx
    /\ calls[ctl.call].wrote
    /\ Delivered(ctl.call)
    /\ ctl.code = 200
    /\ ctl.err = NoError

\* The Data read by dial so far are a chain of Segments: each carries the
\* Segment marker, each but the last is not final and is followed by the Data
\* of the same Name with the Segment number one higher, and the last one has
\* its own last component as FinalBlockId.
IsChain(s) ==
    /\ Len(s) >= 1
    /\ \A i \in 1..Len(s) :
           /\ Marker(Pop(s[i].name).last) = "Segment"
           /\ IsFinal(s[i]) <=> i = Len(s)
    /\ \A i \in 1..(Len(s) - 1) :
           /\ Pop(s[i + 1].name).rest = Pop(s[i].name).rest
           /\ Number(Pop(s[i + 1].name).last) = Number(Pop(s[i].name).last) + 1

\* C16: continuation over a chain of Segments.  Once dial has read a chain of
\* k Data that ends with its final Segment, it has written exactly k
\* Interests, the one Dial was called with and, after every Data but the last,
\* the one named like the Data that follows; it writes no more; it sent no
\* error; the caller has received the Data of the chain in their order, none
\* twice and at most two not yet, and all k once the goroutines have come to
\* rest.
C16_SegmentChain ==
    IsChain(dl.rcvd) =>
        LET k == Len(dl.rcvd)
        IN  /\ Len(dl.wire) = k
            /\ dl.wire[1] = dl.first
            /\ \A i \in 1..(k - 1) : dl.wire[i + 1] = dl.rcvd[i + 1].name
            /\ dl.pc \in {"hand", "step", "exit"}
            /\ dl.errs = <<>>
            /\ Len(dl.got) <= k
            /\ Len(dl.got) >= k - 2
            /\ dl.got = SubSeq(dl.rcvd, 1, Len(dl.got))
            /\ dl.pc = "exit" /\ dl.fwd = <<>> => dl.got = dl.rcvd

\* A chain of three Segments was read and delivered, and dial has ended.
C16_Witness ==
    /\ IsChain(dl.rcvd)
    /\ Len(dl.rcvd) = 3
    /\ Len(dl.wire) = 3
    /\ dl.pc = "exit"
    /\ dl.got = dl.rcvd

\* C17: the continuation step.  The Interest written after a Data has the Name
\* of the Data but for the last component, which keeps its marker, one of
\* Segment, Sequence and Offset, and whose number is the number of the Data
\* plus one (Segment, Sequence) or plus the length of its Content (Offset), in
\* the arithmetic of the machine word; the Data was not final.
C17_ContinuationStep ==
    \A i \in 1..Len(dl.rcvd) :
        i + 1 <= Len(dl.wire) =>
            LET d == dl.rcvd[i]
                last == d.name[Len(d.name)]
                next == dl.wire[i + 1]
                mk == last[1]
                n == last[2]
                inc == IF mk = "Offset" THEN d.len ELSE 1
            IN  /\ ~IsFinal(d)
                /\ mk \in {"Segment", "Sequence", "Offset"}
                /\ Len(next) = Len(d.name)
                /\ \A j \in 1..(Len(next) - 1) : next[j] = d.name[j]
                /\ next[Len(next)][1] = mk
                /\ next[Len(next)][2] = (n + inc) % Word
                /\ n + inc < Word => next[Len(next)] = <<mk, n + inc>>

\* An Interest was written after an Offset Data with a Content of length 2,
\* and another after a Sequence Data.
C17_Witness ==
    \E i \in 1..Len(dl.rcvd), j \in 1..Len(dl.rcvd) :
        /\ i + 1 <= Len(dl.wire)
        /\ j + 1 <= Len(dl.wire)
        /\ dl.rcvd[i].name[2][1] = "Offset"
        /\ dl.rcvd[i].len = 2
        /\ dl.wire[i + 1][2] = <<"Offset", dl.rcvd[i].name[2][2] + 2>>
        /\ dl.rcvd[j].name[2][1] = "Sequence"
        /\ dl.wire[j + 1][2] = <<"Sequence", dl.rcvd[j].name[2][2] + 1>>

\* C18: a Data that is not final and whose last component carries no marker,
\* or a marker that is none of Segment, Sequence and Offset, halts the
\* continuation with a protocol error.  No Interest is written after such a
\* Data, and once dial has ended the caller has received an error on h.Error.
C18_BadMarkerSurfaced ==
    \A i \in 1..Len(dl.rcvd) :
        LET d == dl.rcvd[i]
            last == d.name[Len(d.name)]
        IN  ~IsFinal(d) /\ last[1] \notin {"Segment", "Sequence", "Offset"} =>
                /\ Len(dl.wire) <= i
                /\ dl.pc = "exit" => dl.errs # <<>>

\* C19: the variable-width integer of TLV.  readByte on the bytes of
\* writeByte(v) returns v without error and leaves exactly what followed
\* them; the bytes are v itself for v <= 252, 0xFD and 2 bytes for v up to
\* 65535, 0xFE and 4 bytes for v up to 2^32-1, 0xFF and 8 bytes above, each
\* time the low bytes of v, most significant first; countBytes(v) is their
\* number.
C19_VarIntRoundTrip ==
    /\ tv.pc \in {"written", "read"} =>
           LET v == tv.v
               zeros(k) == \A i \in 1..k : v[i] = 0
               width == IF zeros(7) /\ v[8] <= 252 THEN 0
                        ELSE IF zeros(6) THEN 2
                        ELSE IF zeros(4) THEN 4
                        ELSE 8
               prefix == IF width = 0 THEN <<>>
                         ELSE IF width = 2 THEN <<253>>
                         ELSE IF width = 4 THEN <<254>>
                         ELSE <<255>>
           IN  /\ tv.buf = prefix \o SubSeq(v, IF width = 0 THEN 8 ELSE 9 - width, 8)
               /\ tv.count = Len(tv.buf)
    /\ tv.pc = "read" =>
           /\ ~tv.res.err
           /\ tv.res.result = tv.v
           /\ tv.res.rest = tv.tail

\* 253 was written as 0xFD 0x00 0xFD and read back, with a byte behind it left
\* in the buffer.
C19_Witness ==
    /\ tv.pc = "read"
    /\ tv.v = <<0, 0, 0, 0, 0, 0, 0, 253>>
    /\ tv.buf = <<253, 0, 253>>
    /\ tv.count = 3
    /\ tv.tail = <<255>>
    /\ tv.res.result = tv.v
    /\ tv.res.rest = <<255>>

\* A node of the tree, reached from the root through the Children of nodes
\* without Value, has both a Value and Children.
RECURSIVE HasCoexisting(_)
HasCoexisting(t) ==
    \/ Len(t.value) # 0 /\ Len(t.children) # 0
    \/ /\ Len(t.value) = 0
       /\ \E k \in 1..Len(t.children) : HasCoexisting(t.children[k])

\* Every node of the tree has a Value or Children or neither, never both.
RECURSIVE AtMostOne(_)
AtMostOne(t) ==
    /\ Len(t.value) = 0 \/ Len(t.children) = 0
    /\ \A k \in 1..Len(t.children) : AtMostOne(t.children[k])

\* C20: Encode returns the VALUE_CHILDREN_COEXIST error and no bytes when the
\* node, or a node reached through the Children of nodes without Value, has
\* both a Value and Children; it returns bytes and no error for every tree
\* whose nodes have at most one of the two.
C20_EncodeCoexist ==
    tv.pc = "encoded" =>
        /\ HasCoexisting(tv.tree) =>
               tv.out.err = VALUE_CHILDREN_COEXIST /\ tv.out.bytes = NilBytes
        /\ AtMostOne(tv.tree) =>
               tv.out.err = NoError /\ Len(tv.out.bytes) >= 2

\* Encode failed on a tree whose root has no Value and whose second child has
\* no Value either and has a child with both a Value and Children.
C20_Witness ==
    /\ tv.pc = "encoded"
    /\ tv.out.err = VALUE_CHILDREN_COEXIST
    /\ tv.tree.value = <<>>
    /\ Len(tv.tree.children) = 2
    /\ AtMostOne(tv.tree.children[1])
    /\ tv.tree.children[2].value = <<>>
    /\ \E k \in 1..Len(tv.tree.children[2].children) :
           LET g == tv.tree.children[2].children[k]
           IN  Len(g.value) # 0 /\ Len(g.children) # 0

\* The number of bytes Encode returns for the first k Children of t.
RECURSIVE EncodedChildren(_, _)
EncodedChildren(t, k) ==
    IF k = 0 THEN 0
    ELSE EncodedChildren(t, k - 1) + Len(Encode(t.children[k]).bytes)

\* C21: Len agrees with Encode.  For a tree none of whose nodes has both a
\* Value and Children, Len() is the length of the Value of a node that has
\* one and otherwise the number of bytes its Children encode to; Encode
\* returns the Type, then Len() in the width countBytes gives, then exactly
\* Len() bytes.
C21_LenAgreesWithEncode ==
    tv.pc = "encoded" /\ AtMostOne(tv.tree) =>
        LET t == tv.tree
            b == tv.out.bytes
            type == readByte(b)
            length == readByte(type.rest)
        IN  /\ tv.out.err = NoError
            /\ tv.len = IF Len(t.value) # 0 THEN Len(t.value)
                        ELSE EncodedChildren(t, Len(t.children))
            /\ ~type.err /\ type.result = t.type
            /\ ~length.err /\ length.result = U64(tv.len)
            /\ Len(length.rest) = tv.len
            /\ Len(b) = countBytes(t.type) + countBytes(U64(tv.len)) + tv.len
            /\ Len(b) - Len(type.rest) = countBytes(t.type)
            /\ Len(type.rest) - Len(length.rest) = countBytes(U64(tv.len))

\* A node without Value whose two Children each carry a Value of 253 bytes
\* was encoded: its Len() is 514 and is written in the 3-byte form.
C21_Witness ==
    /\ tv.pc = "encoded"
    /\ tv.out.err = NoError
    /\ tv.tree.value = <<>>
    /\ Len(tv.tree.children) = 2
    /\ tv.tree.children[1].value = LongValue
    /\ tv.tree.children[2].value = LongValue
    /\ tv.len = 514
    /\ SubSeq(tv.out.bytes, 1, 4) = <<7, 253, 2, 2>>

\* C22: Decode fails on a truncated frame.  When the input ends inside the
\* type field, inside the length field, or before the number of Value bytes
\* the length field announces, Decode returns an error.
C22_DecodeTruncated ==
    tv.pc = "decoded" =>
        LET type == readByte(tv.raw)
            length == readByte(type.rest)
        IN  \/ type.err
            \/ length.err
            \/ Exceeds(length.result, Len(length.rest))
            => tv.dec.err

\* C27: A SendInterest whose write fails while the PIT holds no entry for the
\* Name returns the error and no sink, leaves the PIT without an entry and
\* schedules no expiry, so a later SendInterest for the Name writes again; a
\* SendInterest that joins an existing entry never writes and never fails.
C27_FailedWrite ==
    [][\A c \in 1..Len(calls) :
          LET f == calls[c].face
              n == calls[c].name
              had == pit[f][n] # Nil
          IN  /\ calls[c].pc = "update" /\ calls'[c].pc # "update" =>
                    /\ calls'[c].pc = "failed" =>
                          /\ ~had
                          /\ pit' = pit
                          /\ gen' = gen
                          /\ calls'[c].ch = NewChan
                          /\ ~calls'[c].wrote
                    /\ had => calls'[c].pc = "sleep" /\ ~calls'[c].wrote
                    /\ ~had => calls'[c].pc = "failed" \/ calls'[c].wrote
              /\ calls[c].pc = "failed" =>
                    /\ calls'[c] = calls[c]
                    /\ \A g \in Faces, k \in Names :
                          pit'[g][k] # Nil => c \notin pit'[g][k][1]
      ]_vars

\* A write failed and a later call for the same Name on the same Face wrote
\* the Interest again and made the entry.
C27_Witness ==
    /\ Len(calls) = MaxCalls
    /\ \E c, d \in 1..Len(calls) :
          /\ c < d
          /\ calls[c].pc = "failed"
          /\ calls[d].face = calls[c].face /\ calls[d].name = calls[c].name
          /\ calls[d].pc = "sleep" /\ calls[d].wrote
          /\ pit[calls[d].face][calls[d].name] = <<{d}>>

\* C26: Listen reads an inbound Interest and delivers it on Handle.Interest
\* only after faces/create and then fib/add-nexthop were each answered with
\* StatusCode 200, the second carrying the FaceId the first returned.  When
\* either fails, by an I/O error or another StatusCode, one error is delivered
\* on Handle.Error, the later steps are not attempted and no Interest is ever
\* delivered.
C26_ListenOrder ==
    ln.pc # "idle" =>
        /\ ln.reads > 0 \/ ln.ints > 0 \/ ln.serving =>
              /\ Len(ln.wire) = 2
              /\ Len(ln.answers) = 2
              /\ ln.wire[1] = Command("faces", "create", 0, TRUE)
              /\ ln.answers[1].code = 200
              /\ ln.wire[2] = Command("fib", "add-nexthop", ln.answers[1].faceId, TRUE)
              /\ ln.answers[2].code = 200
        /\ ~ln.serving /\ ln.pc \in {"error", "returned"} =>
              /\ ln.err # NoError
              /\ ln.errs = IF ln.pc = "returned" THEN <<ln.err>> ELSE <<>>
              /\ ln.reads = 0 /\ ln.ints = 0 /\ ln.written = 0
              /\ \/ ~ln.wire[Len(ln.wire)].ok
                 \/ Len(ln.answers) < Len(ln.wire)
                 \/ ln.answers[Len(ln.answers)].code # 200
              /\ \A k \in 1..(Len(ln.wire) - 1) :
                    ln.wire[k].ok /\ ln.answers[k].code = 200
        /\ ~ln.serving /\ ln.pc \notin {"error", "returned"} => ln.errs = <<>>

\* Both commands were answered with 200, the FaceId returned was 2, and an
\* Interest was delivered.
C26_Witness ==
    /\ ln.pc # "idle"
    /\ ln.ints > 0
    /\ ln.id = 2

\* C28: A Dial ends observably.  Once dial has stopped, after the final
\* segment or for any other reason, and the caller has taken every Data it
\* was handed, the Data channel of the Handle is closed or an error was
\* delivered on its Error channel.
C28_DialEndsObservably ==
    dl.pc = "exit" /\ dl.fwd = <<>> => dl.closed \/ dl.errs # <<>>

\* C23: A Key reconstructed by DecodePublicKey holds public material only;
\* sign on it fails with the unsupported-key-type error for the RSA and the
\* ECDSA kind, and Verify on it dispatches to the scheme of its kind.
C23_PublicKeyCannotSign ==
    ky.pc # "idle" /\ ky.public =>
        /\ ky.key.d = NoPrivate
        /\ ky.last.op = "sign" =>
              ky.pc = "key" /\ ky.last.err = <<"unsupported key type">>
        /\ ky.last.op = "verify" =>
              ky.last.err \in
                  IF ky.key.type = "rsa" THEN {NoError, <<"crypto/rsa: verification error">>}
                  ELSE {NoError, <<"asn1">>, <<"crypto/ecdsa: verification error">>}

====
